---- MODULE Spec2Model ----
(***************************************************************************)
(* Model of captum/_utils/common.py: formatting, validation, expansion and *)
(* target selection helpers.  Python values are tagged records; a tensor   *)
(* is its dtype, its shape and its contiguous row-major storage.           *)
(***************************************************************************)
EXTENDS Integers, Sequences, FiniteSets, TLC

VARIABLES fn, args, ret, kwargs, kwargs0, done, last

vars == <<fn, args, ret, kwargs, kwargs0, done, last>>

\* ------------------------------------------------------------- bounds
MaxDim == 2
MaxRank == 3
MaxSteps == 3

\* ------------------------------------------------------ Python values
NoneV == [tag |-> "none"]
IntV(n) == [tag |-> "int", v |-> n]
FloatV(n) == [tag |-> "float", v |-> n]
StrV(s) == [tag |-> "str", v |-> s]
TupleV(s) == [tag |-> "tuple", items |-> s]
ListV(s) == [tag |-> "list", items |-> s]
TensorV(dt, sh, d) == [tag |-> "tensor", dtype |-> dt, shape |-> sh, data |-> d]

\* the outcome of a call: a returned value or a raised exception
Ok(v) == [status |-> "ok", val |-> v]
Raise(e) == [status |-> e, val |-> NoneV]
Pending == [status |-> "pending", val |-> NoneV]

\* ExpansionTypes.repeat, ExpansionTypes.repeat_interleave; "other" stands
\* for any value that is neither member
ExpansionTypes == {"repeat", "repeat_interleave"}

\* ---------------------------------------------------- tensor library
RECURSIVE Prod(_)
Prod(s) == IF s = <<>> THEN 1 ELSE Head(s) * Prod(Tail(s))

RECURSIVE SumSeq(_)
SumSeq(s) == IF s = <<>> THEN 0 ELSE Head(s) + SumSeq(Tail(s))

RECURSIVE Concat(_)
Concat(ss) == IF ss = <<>> THEN <<>> ELSE Head(ss) \o Concat(Tail(ss))

\* torch.numel
numel(t) == Prod(t.shape)

\* stride of dimension d (1-based) of a contiguous tensor of this shape
Stride(shape, d) == Prod(SubSeq(shape, d + 1, Len(shape)))

\* Python's wrap-around of a negative index into a dimension of size n
WrapIdx(i, n) == IF i < 0 THEN i + n ELSE i

InRange(i, n) == -n <= i /\ i < n

\* t[idx] for a tuple idx of integers indexing the leading Len(idx)
\* dimensions: the sub-tensor at that storage offset
IndexLeading(t, idx) ==
    LET k == Len(idx)
        rest == SubSeq(t.shape, k + 1, Len(t.shape))
        off == SumSeq([j \in 1..k |-> WrapIdx(idx[j], t.shape[j]) * Stride(t.shape, j)])
    IN  IF k > Len(t.shape) THEN Raise("IndexError")
        ELSE IF \E j \in 1..k : ~InRange(idx[j], t.shape[j]) THEN Raise("IndexError")
        ELSE Ok(TensorV(t.dtype, rest, [m \in 1..Prod(rest) |-> t.data[off + m]]))

\* t[(slice(None), *idx)]: every row, the same index idx into the
\* dimensions after the batch axis
IndexColumns(t, idx) ==
    LET k == Len(idx)
        rank == Len(t.shape)
        rest == SubSeq(t.shape, k + 2, rank)
        shape == <<t.shape[1]>> \o rest
        off == SumSeq([j \in 1..k |-> WrapIdx(idx[j], t.shape[j + 1]) * Stride(t.shape, j + 1)])
        inner == Prod(rest)
    IN  IF rank = 0 \/ k > rank - 1 THEN Raise("IndexError")
        ELSE IF \E j \in 1..k : ~InRange(idx[j], t.shape[j + 1]) THEN Raise("IndexError")
        ELSE Ok(TensorV(t.dtype, shape,
                [m \in 1..Prod(shape) |->
                    t.data[((m - 1) \div inner) * Stride(t.shape, 1) + off
                           + ((m - 1) % inner) + 1]]))

\* Gather with the index axis squeezed away: a result of shape [N]
Gather_squeezed(t, index) ==
    IF index.dtype # "int64" \/ Len(t.shape) # Len(index.shape)
       \/ index.shape[1] > t.shape[1]
       \/ \E i \in 1..index.shape[1] : index.data[i] < 0 \/ index.data[i] >= t.shape[2]
    THEN Raise("RuntimeError")
    ELSE Ok(TensorV(t.dtype, <<index.shape[1]>>,
            [i \in 1..index.shape[1] |-> t.data[(i - 1) * t.shape[2] + index.data[i] + 1]]))

\* Gather that ignores the row: every entry read from row 0
Gather_row0(t, index) ==
    IF index.dtype # "int64" \/ Len(t.shape) # Len(index.shape)
       \/ index.shape[1] > t.shape[1]
       \/ \E i \in 1..index.shape[1] : index.data[i] < 0 \/ index.data[i] >= t.shape[2]
    THEN Raise("RuntimeError")
    ELSE Ok(TensorV(t.dtype, index.shape,
            [i \in 1..index.shape[1] |-> t.data[index.data[i] + 1]]))

\* torch.gather(t, 1, index) for a 2-D t and an index of shape [N, 1]
Gather(t, index) ==
    LET n == index.shape[1]
        cols == t.shape[2]
    IN  IF index.dtype # "int64" THEN Raise("RuntimeError")
        ELSE IF Len(t.shape) # Len(index.shape) \/ n > t.shape[1] THEN Raise("RuntimeError")
        ELSE IF \E i \in 1..n : index.data[i] < 0 \/ index.data[i] >= cols
             THEN Raise("RuntimeError")
        ELSE Ok(TensorV(t.dtype, index.shape,
                [i \in 1..n |-> t.data[(i - 1) * cols + index.data[i] + 1]]))

\* torch.stack of a sequence of tensors along a new leading axis
Stack(ts) ==
    IF ts = <<>> THEN Raise("RuntimeError")
    ELSE IF \E i \in 1..Len(ts) : ts[i].shape # ts[1].shape THEN Raise("RuntimeError")
    ELSE Ok(TensorV(ts[1].dtype, <<Len(ts)>> \o ts[1].shape,
                    Concat([i \in 1..Len(ts) |-> ts[i].data])))

\* torch.cat([t] * n, dim=0)
CatRepeat(t, n) ==
    IF n <= 0 THEN Raise("RuntimeError")
    ELSE Ok(TensorV(t.dtype, <<n * t.shape[1]>> \o Tail(t.shape),
                    Concat([c \in 1..n |-> t.data])))

\* t.repeat_interleave(n, dim=0)
RepeatInterleave(t, n) ==
    LET row == Prod(Tail(t.shape))
    IN  IF n < 0 THEN Raise("RuntimeError")
        ELSE Ok(TensorV(t.dtype, <<n * t.shape[1]>> \o Tail(t.shape),
                Concat([r \in 1..t.shape[1] |->
                    Concat([c \in 1..n |-> SubSeq(t.data, (r - 1) * row + 1, r * row)])])))

\* the plain integers of a tuple of ints
Raw(tup) == [j \in 1..Len(tup.items) |-> tup.items[j].v]

IsIndexTuple(v) ==
    v.tag = "tuple" /\ \A j \in 1..Len(v.items) : v.items[j].tag = "int"

\* --------------------------------------------------- target selection
\* select_column without the leading slice: output[target]
_verify_select_column_noslice(output, target) ==
    LET tgt == IF target.tag = "int" THEN <<target.v>> ELSE Raw(target)
    IN  IF ~(Len(tgt) <= Len(output.shape) - 1) THEN Raise("AssertionError")
        ELSE IndexLeading(output, tgt)

_verify_select_column(output, target) ==
    LET tgt == IF target.tag = "int" THEN <<target.v>> ELSE Raw(target)
    IN  IF ~(Len(tgt) <= Len(output.shape) - 1) THEN Raise("AssertionError")
        ELSE IndexColumns(output, tgt)

\* torch.tensor(target).reshape(len(output), 1) for a list target
ListIndexTensor(target, n) ==
    IF \E i \in 1..Len(target.items) : target.items[i].tag # "int"
    THEN Raise("ValueError")
    ELSE IF Len(target.items) # n THEN Raise("RuntimeError")
    ELSE Ok(TensorV("int64", <<n, 1>>, [i \in 1..n |-> target.items[i].v]))

\* [output[(i,) + targ_elem] for i, targ_elem in enumerate(target)]
RowSelections(output, target) ==
    [i \in 1..Len(target.items) |->
        IF ~IsIndexTuple(target.items[i]) THEN Raise("TypeError")
        ELSE IndexLeading(output, <<i - 1>> \o Raw(target.items[i]))]

_select_targets(output, target) ==
    LET num_examples == output.shape[1]
        dims == Len(output.shape)
    IN  IF target.tag = "none" THEN Ok(output)
        ELSE IF target.tag \in {"int", "tuple"} THEN _verify_select_column(output, target)
        ELSE IF target.tag = "tensor" THEN
            IF numel(target) = 1 /\ target.dtype = "int64"
            THEN _verify_select_column(output, IntV(target.data[1]))
            ELSE IF Len(target.shape) = 1 /\ numel(target) = num_examples
            THEN IF dims # 2 THEN Raise("AssertionError")
                 ELSE Gather(output, TensorV(target.dtype, <<num_examples, 1>>, target.data))
            ELSE Raise("AssertionError")
        ELSE IF target.tag = "list" THEN
            IF Len(target.items) # num_examples THEN Raise("AssertionError")
            ELSE IF Len(target.items) = 0 THEN Raise("IndexError")
            ELSE IF target.items[1].tag = "int" THEN
                IF dims # 2 THEN Raise("AssertionError")
                ELSE LET idx == ListIndexTensor(target, num_examples)
                     IN  IF idx.status # "ok" THEN idx ELSE Gather(output, idx.val)
            ELSE IF target.items[1].tag = "tuple" THEN
                LET rows == RowSelections(output, target)
                IN  IF \E i \in 1..Len(rows) : rows[i].status # "ok"
                    THEN rows[CHOOSE i \in 1..Len(rows) : rows[i].status # "ok"
                                /\ \A j \in 1..(i - 1) : rows[j].status = "ok"]
                    ELSE Stack([i \in 1..Len(rows) |-> rows[i].val])
            ELSE Raise("AssertionError")
        ELSE Raise("AssertionError")

\* ------------------------------------------------------------ Formatter
_zeros(inputs) == TupleV([i \in 1..Len(inputs.items) |-> IntV(0)])

_format_baseline(baselines, inputs) ==
    IF baselines.tag = "none" THEN Ok(_zeros(inputs))
    ELSE LET b == IF baselines.tag # "tuple" THEN TupleV(<<baselines>>) ELSE baselines
         IN  IF \E i \in 1..Len(b.items) : b.items[i].tag \notin {"tensor", "int", "float"}
             THEN Raise("AssertionError")
             ELSE Ok(b)

\* the isinstance assertion left out: any non-tuple value is wrapped
_format_tensor_into_tuples_noassert(inputs) ==
    IF inputs.tag = "none" THEN Ok(NoneV)
    ELSE IF inputs.tag # "tuple" THEN Ok(TupleV(<<inputs>>))
    ELSE Ok(inputs)

_format_tensor_into_tuples(inputs) ==
    IF inputs.tag = "none" THEN Ok(NoneV)
    ELSE IF inputs.tag # "tuple" THEN
        IF inputs.tag # "tensor" THEN Raise("AssertionError")
        ELSE Ok(TupleV(<<inputs>>))
    ELSE Ok(inputs)

_format_additional_forward_args(additional_forward_args) ==
    IF additional_forward_args.tag # "none" /\ additional_forward_args.tag # "tuple"
    THEN TupleV(<<additional_forward_args>>)
    ELSE additional_forward_args

\* ------------------------------------------------------------ Validator
\* shape[1:]
ShapeTail(shape) == SubSeq(shape, 2, Len(shape))

\* the assertion of one (input, baseline) pair; reading shape[0] of a
\* 0-dimensional baseline raises IndexError
BaselineAccepted(input, baseline, draw_baseline_from_distrib) ==
    IF draw_baseline_from_distrib
    THEN IF baseline.tag \in {"int", "float"}
            \/ ShapeTail(input.shape) = ShapeTail(baseline.shape)
         THEN "ok" ELSE "AssertionError"
    ELSE IF baseline.tag \in {"int", "float"} \/ input.shape = baseline.shape THEN "ok"
         ELSE IF Len(baseline.shape) = 0 THEN "IndexError"
         ELSE IF baseline.shape[1] = 1 THEN "ok" ELSE "AssertionError"

_validate_input(inputs, baselines, draw_baseline_from_distrib) ==
    LET each == [i \in 1..Len(inputs.items) |->
                    BaselineAccepted(inputs.items[i], baselines.items[i],
                                     draw_baseline_from_distrib)]
    IN  IF Len(inputs.items) # Len(baselines.items) THEN Raise("AssertionError")
        ELSE IF \E i \in 1..Len(each) : each[i] # "ok"
        THEN Raise(each[CHOOSE i \in 1..Len(each) : each[i] # "ok"
                          /\ \A j \in 1..(i - 1) : each[j] = "ok"])
        ELSE Ok(NoneV)

\* ------------------------------------------------------------- Expander
\* target * n_steps
ListRepeat(items, n) == Concat([c \in 1..n |-> items])

\* interleaving done as tiling: whole copies instead of element blocks
ListInterleave_tiled(items, n) == Concat([c \in 1..n |-> items])

\* for i in target: expanded_target.extend([i] * n_steps)
RECURSIVE ListInterleave(_, _)
ListInterleave(items, n) ==
    IF items = <<>> THEN <<>>
    ELSE [c \in 1..n |-> Head(items)] \o ListInterleave(Tail(items), n)

\* the final else branch missing: any other tag handled as repeat_interleave
ExpandTensor_fallthrough(t, n_steps, expansion_type) ==
    IF expansion_type = "repeat" THEN CatRepeat(t, n_steps)
    ELSE RepeatInterleave(t, n_steps)

ExpandTensor(t, n_steps, expansion_type) ==
    IF expansion_type = "repeat" THEN CatRepeat(t, n_steps)
    ELSE IF expansion_type = "repeat_interleave" THEN RepeatInterleave(t, n_steps)
    ELSE Raise("NotImplementedError")

_expand_tensor_forward_arg(additional_forward_arg, n_steps, expansion_type) ==
    IF Len(additional_forward_arg.shape) = 0 THEN Ok(additional_forward_arg)
    ELSE ExpandTensor(additional_forward_arg, n_steps, expansion_type)

_expand_additional_forward_args(additional_forward_args, n_steps, expansion_type) ==
    IF additional_forward_args.tag = "none" THEN Ok(NoneV)
    ELSE LET items == additional_forward_args.items
             each == [i \in 1..Len(items) |->
                        IF items[i].tag = "tensor"
                        THEN _expand_tensor_forward_arg(items[i], n_steps, expansion_type)
                        ELSE Ok(items[i])]
         IN  IF \E i \in 1..Len(each) : each[i].status # "ok"
             THEN each[CHOOSE i \in 1..Len(each) : each[i].status # "ok"
                          /\ \A j \in 1..(i - 1) : each[j].status = "ok"]
             ELSE Ok(TupleV([i \in 1..Len(each) |-> each[i].val]))

\* numel(target) >= 1 in place of numel(target) > 1
_expand_target_ge1(target, n_steps, expansion_type) ==
    IF target.tag = "list" THEN
        IF expansion_type = "repeat" THEN Ok(ListV(ListRepeat(target.items, n_steps)))
        ELSE IF expansion_type = "repeat_interleave"
        THEN Ok(ListV(ListInterleave(target.items, n_steps)))
        ELSE Raise("NotImplementedError")
    ELSE IF target.tag = "tensor" /\ numel(target) >= 1 /\ Len(target.shape) > 0
    THEN ExpandTensor(target, n_steps, expansion_type)
    ELSE Ok(target)

_expand_target(target, n_steps, expansion_type) ==
    IF target.tag = "list" THEN
        IF expansion_type = "repeat" THEN Ok(ListV(ListRepeat(target.items, n_steps)))
        ELSE IF expansion_type = "repeat_interleave"
        THEN Ok(ListV(ListInterleave(target.items, n_steps)))
        ELSE Raise("NotImplementedError")
    ELSE IF target.tag = "tensor" /\ numel(target) > 1
    THEN ExpandTensor(target, n_steps, expansion_type)
    ELSE Ok(target)

\* --------------------------------------------- in-place kwargs updates
\* np.random.choice(num_ref_samples, n_samples * bsz).tolist()
get_random_baseline_indices(bsz, baseline, n_samples) ==
    [1..(n_samples * bsz) -> 0..(baseline.shape[1] - 1)]

\* baseline[indices] for a list of row indices
TakeRows(t, indices) ==
    LET row == Prod(Tail(t.shape))
    IN  TensorV(t.dtype, <<Len(indices)>> \o Tail(t.shape),
                Concat([k \in 1..Len(indices) |->
                    SubSeq(t.data, indices[k] * row + 1, (indices[k] + 1) * row)]))

\* every way of picking one element from each set of a sequence of sets
RECURSIVE Choices(_)
Choices(sets) ==
    IF sets = <<>> THEN {<<>>}
    ELSE {<<h>> \o t : h \in Head(sets), t \in Choices(Tail(sets))}

\* the draws of one call: one index list per tensor baseline
RandomDraws(inputs, n_samples, kw, draw_baseline_from_distrib) ==
    LET fb == IF "baselines" \in DOMAIN kw
              THEN _format_baseline(kw["baselines"], inputs) ELSE Raise("absent")
        drawn == draw_baseline_from_distrib /\ fb.status = "ok"
                 /\ _validate_input(inputs, fb.val, TRUE).status = "ok"
    IN  IF ~drawn THEN {<<>>}
        ELSE Choices([i \in 1..Len(fb.val.items) |->
                        IF fb.val.items[i].tag = "tensor"
                        THEN get_random_baseline_indices(inputs.items[1].shape[1],
                                                         fb.val.items[i], n_samples)
                        ELSE {<<>>}])

\* whole copies of the baseline concatenated instead of repeat_interleave
ExpandedBaselines_tiled(inputs, n_samples, baselines, draw_baseline_from_distrib, rnd) ==
    IF draw_baseline_from_distrib
    THEN TupleV([i \in 1..Len(baselines.items) |->
            IF baselines.items[i].tag = "tensor"
            THEN TakeRows(baselines.items[i], rnd[i])
            ELSE baselines.items[i]])
    ELSE TupleV([i \in 1..Len(baselines.items) |->
            IF baselines.items[i].tag = "tensor"
               /\ baselines.items[i].shape[1] = inputs.items[i].shape[1]
               /\ baselines.items[i].shape[1] > 1
            THEN TensorV(baselines.items[i].dtype,
                         <<n_samples * baselines.items[i].shape[1]>>
                             \o Tail(baselines.items[i].shape),
                         Concat([c \in 1..n_samples |-> baselines.items[i].data]))
            ELSE baselines.items[i]])

ExpandedBaselines(inputs, n_samples, baselines, draw_baseline_from_distrib, rnd) ==
    IF draw_baseline_from_distrib
    THEN TupleV([i \in 1..Len(baselines.items) |->
            IF baselines.items[i].tag = "tensor"
            THEN TakeRows(baselines.items[i], rnd[i])
            ELSE baselines.items[i]])
    ELSE TupleV([i \in 1..Len(baselines.items) |->
            IF baselines.items[i].tag = "tensor"
               /\ baselines.items[i].shape[1] = inputs.items[i].shape[1]
               /\ baselines.items[i].shape[1] > 1
            THEN RepeatInterleave(baselines.items[i], n_samples).val
            ELSE baselines.items[i]])

\* each update returns the outcome of the call and the mapping it leaves
_expand_and_update_baselines(inputs, n_samples, kw, draw_baseline_from_distrib, rnd) ==
    IF "baselines" \notin DOMAIN kw THEN [status |-> "ok", kwargs |-> kw]
    ELSE LET fb == _format_baseline(kw["baselines"], inputs)
         IN  IF fb.status # "ok" THEN [status |-> fb.status, kwargs |-> kw]
             ELSE LET v == _validate_input(inputs, fb.val, draw_baseline_from_distrib)
                  IN  IF v.status # "ok" THEN [status |-> v.status, kwargs |-> kw]
                      ELSE [status |-> "ok",
                            kwargs |-> [kw EXCEPT !["baselines"] =
                                ExpandedBaselines(inputs, n_samples, fb.val,
                                                  draw_baseline_from_distrib, rnd)]]

_expand_and_update_additional_forward_args(n_samples, kw) ==
    IF "additional_forward_args" \notin DOMAIN kw THEN [status |-> "ok", kwargs |-> kw]
    ELSE LET a == _format_additional_forward_args(kw["additional_forward_args"])
         IN  IF a.tag = "none" THEN [status |-> "ok", kwargs |-> kw]
             ELSE LET e == _expand_additional_forward_args(a, n_samples, "repeat_interleave")
                  IN  IF e.status # "ok" THEN [status |-> e.status, kwargs |-> kw]
                      ELSE [status |-> "ok",
                            kwargs |-> [kw EXCEPT !["additional_forward_args"] = e.val]]

\* the expanded target stored under "baselines" instead of "target"
_expand_and_update_target_wrongkey(n_samples, kw) ==
    IF "target" \notin DOMAIN kw THEN [status |-> "ok", kwargs |-> kw]
    ELSE LET e == _expand_target(kw["target"], n_samples, "repeat_interleave")
         IN  IF e.status # "ok" THEN [status |-> e.status, kwargs |-> kw]
             ELSE [status |-> "ok",
                   kwargs |-> [k \in DOMAIN kw \cup {"baselines"} |->
                                  IF k = "baselines" THEN e.val ELSE kw[k]]]

_expand_and_update_target(n_samples, kw) ==
    IF "target" \notin DOMAIN kw THEN [status |-> "ok", kwargs |-> kw]
    ELSE LET e == _expand_target(kw["target"], n_samples, "repeat_interleave")
         IN  IF e.status # "ok" THEN [status |-> e.status, kwargs |-> kw]
             ELSE [status |-> "ok", kwargs |-> [kw EXCEPT !["target"] = e.val]]

\* ------------------------------------------------------- input domains
Dims == 1..MaxDim
IdxVals == -1..MaxDim
StepVals == 0..MaxSteps
DTypes == {"int64", "float32"}

\* a float tensor whose entries are all distinct: off + 1, off + 2, ...
Iota(shape, off) == TensorV("float32", shape, [k \in 1..Prod(shape) |-> off + k])

IntTuple(s) == TupleV([j \in 1..Len(s) |-> IntV(s[j])])

OutputShapes == UNION {[1..r -> Dims] : r \in 1..MaxRank}
Outputs == {Iota(sh, 0) : sh \in OutputShapes}

IntTargets == {IntV(v) : v \in IdxVals}
IndexTuples ==
    {IntTuple(s) : s \in UNION {[1..k -> 0..(MaxDim - 1)] : k \in 0..MaxRank}}
    \cup {IntTuple(<<v>>) : v \in IdxVals}
TensorTargets ==
    {TensorV(dt, <<>>, <<v>>) : dt \in DTypes, v \in IdxVals}
    \cup {TensorV("float32", <<1>>, <<v>>) : v \in 0..1}
    \cup UNION {{TensorV("int64", <<n>>, d) : d \in [1..n -> 0..MaxDim]} : n \in Dims}
    \cup UNION {{TensorV("int64", <<n, 1>>, d) : d \in [1..n -> 0..(MaxDim - 1)]} : n \in Dims}
IntLists ==
    UNION {{ListV([i \in 1..n |-> IntV(d[i])]) : d \in [1..n -> IdxVals]} : n \in 0..MaxDim}
TupleElems == {IntTuple(s) : s \in UNION {[1..k -> {0, MaxDim - 1}] : k \in 1..2}}
TupleLists == UNION {{ListV(d) : d \in [1..n -> TupleElems]} : n \in Dims}
MixedLists ==
    {ListV(<<IntV(0), IntTuple(<<0>>)>>), ListV(<<IntTuple(<<0>>), IntV(0)>>),
     ListV(<<StrV("a")>>)}
Targets ==
    {NoneV, StrV("a")} \cup IntTargets \cup IndexTuples \cup TensorTargets
    \cup IntLists \cup TupleLists \cup MixedLists

ArgElems ==
    {Iota(<<>>, 0), IntV(7), StrV("a"), NoneV}
    \cup {Iota(<<n>>, 0) : n \in Dims} \cup {Iota(<<n, MaxDim>>, 0) : n \in Dims}
ForwardArgs == {NoneV} \cup {TupleV(s) : s \in UNION {[1..k -> ArgElems] : k \in 0..2}}

FormatInputs ==
    {NoneV, IntV(3), FloatV(1), StrV("a"), ListV(<<>>), ListV(<<Iota(<<1>>, 0)>>)}
    \cup Outputs \cup ForwardArgs \cup IndexTuples

VShapes == UNION {[1..r -> Dims] : r \in 1..2}
VInputs ==
    {TupleV(<<Iota(sh, 0)>>) : sh \in VShapes}
    \cup {TupleV(<<Iota(sh, 0), Iota(<<n>>, 0)>>) : sh \in VShapes, n \in Dims}
VBaselineElems == {IntV(0), FloatV(0), Iota(<<>>, 100)} \cup {Iota(sh, 100) : sh \in VShapes}
VBaselines == {TupleV(s) : s \in UNION {[1..k -> VBaselineElems] : k \in 1..2}}

\* ------------------------------------------------ pure-function calls
NoKwargs == /\ kwargs = <<>> /\ kwargs0 = <<>> /\ done = {} /\ last = "none"

InitSelect ==
    /\ \/ fn = "select_targets" /\ args \in [output : Outputs, target : Targets]
       \/ fn = "select_column"
          /\ args \in [output : Outputs, target : IntTargets \cup IndexTuples]
    /\ ret = Pending
    /\ NoKwargs

InitExpand ==
    /\ \/ fn = "expand_target"
          /\ args \in [target : Targets, n_steps : StepVals,
                       expansion_type : ExpansionTypes \cup {"other"}]
       \/ fn = "expand_additional_forward_args"
          /\ args \in [additional_forward_args : ForwardArgs, n_steps : StepVals,
                       expansion_type : ExpansionTypes \cup {"other"}]
    /\ ret = Pending
    /\ NoKwargs

InitFormat ==
    /\ \/ fn = "format_tensor_into_tuples" /\ args \in [inputs : FormatInputs]
       \/ fn = "validate_input"
          /\ args \in [inputs : VInputs, baselines : VBaselines,
                       draw_baseline_from_distrib : BOOLEAN]
    /\ ret = Pending
    /\ NoKwargs

Returns(r) == ret' = r /\ UNCHANGED <<fn, args, kwargs, kwargs0, done, last>>

SelectTargets ==
    /\ fn = "select_targets" /\ ret = Pending
    /\ Returns(_select_targets(args.output, args.target))

SelectColumn ==
    /\ fn = "select_column" /\ ret = Pending
    /\ Returns(_verify_select_column(args.output, args.target))

ExpandTarget ==
    /\ fn = "expand_target" /\ ret = Pending
    /\ Returns(_expand_target(args.target, args.n_steps, args.expansion_type))

ExpandAdditionalForwardArgs ==
    /\ fn = "expand_additional_forward_args" /\ ret = Pending
    /\ Returns(_expand_additional_forward_args(args.additional_forward_args,
                                               args.n_steps, args.expansion_type))

FormatTensorIntoTuples ==
    /\ fn = "format_tensor_into_tuples" /\ ret = Pending
    /\ Returns(_format_tensor_into_tuples(args.inputs))

ValidateInput ==
    /\ fn = "validate_input" /\ ret = Pending
    /\ Returns(_validate_input(args.inputs, args.baselines,
                               args.draw_baseline_from_distrib))

NextSelect == SelectTargets \/ SelectColumn
NextExpand == ExpandTarget \/ ExpandAdditionalForwardArgs
NextFormat == FormatTensorIntoTuples \/ ValidateInput

SpecSelect == InitSelect /\ [][NextSelect]_vars
SpecExpand == InitExpand /\ [][NextExpand]_vars
SpecFormat == InitFormat /\ [][NextFormat]_vars

\* ------------------------------------------- the mutable kwargs mapping
UpdateKeys == {"baselines", "additional_forward_args", "target"}

KInputs ==
    {TupleV(<<Iota(<<b, MaxDim>>, 0)>>) : b \in Dims}
    \cup {TupleV(<<Iota(<<2, MaxDim>>, 0), Iota(<<2>>, 50)>>)}
KBaselines ==
    {NoneV, IntV(0), StrV("a"), Iota(<<1, 1>>, 100)}
    \cup {Iota(<<b, MaxDim>>, 100) : b \in Dims}
    \cup {TupleV(<<Iota(<<2, MaxDim>>, 100), e>>) :
            e \in {FloatV(0), Iota(<<2>>, 150), Iota(<<1>>, 150)}}
KForwardArgs ==
    {NoneV, Iota(<<MaxDim>>, 200),
     TupleV(<<Iota(<<MaxDim, 1>>, 200), IntV(7), Iota(<<>>, 250)>>)}
KTargets ==
    {NoneV, IntV(1), ListV(<<IntV(0), IntV(1)>>),
     TensorV("int64", <<MaxDim>>, [i \in Dims |-> i - 1])}

\* every mapping holding "stdevs" and any of the three updated keys
KValues(k) ==
    IF k = "baselines" THEN KBaselines
    ELSE IF k = "additional_forward_args" THEN KForwardArgs
    ELSE IF k = "target" THEN KTargets
    ELSE {FloatV(1)}
KMappings ==
    UNION {{m \in [D \cup {"stdevs"} -> UNION {KValues(k) : k \in D \cup {"stdevs"}}] :
                \A k \in DOMAIN m : m[k] \in KValues(k)} : D \in SUBSET UpdateKeys}

\* draws from a distribution are modelled for one sample per example
KCalls ==
    [inputs : KInputs, n_samples : StepVals, draw_baseline_from_distrib : {FALSE}]
    \cup [inputs : KInputs, n_samples : {1}, draw_baseline_from_distrib : {TRUE}]

Init ==
    /\ fn = "kwargs"
    /\ args \in KCalls
    /\ kwargs0 \in KMappings
    /\ kwargs = kwargs0
    /\ ret = Pending
    /\ done = {}
    /\ last = "none"

Updated(key, r) ==
    /\ kwargs' = r.kwargs
    /\ ret' = [status |-> r.status, val |-> NoneV]
    /\ done' = done \cup {key}
    /\ last' = key
    /\ UNCHANGED <<fn, args, kwargs0>>

ExpandAndUpdateBaselines ==
    /\ fn = "kwargs" /\ "baselines" \notin done
    /\ \E rnd \in RandomDraws(args.inputs, args.n_samples, kwargs,
                              args.draw_baseline_from_distrib) :
        Updated("baselines",
                _expand_and_update_baselines(args.inputs, args.n_samples, kwargs,
                                             args.draw_baseline_from_distrib, rnd))

ExpandAndUpdateAdditionalForwardArgs ==
    /\ fn = "kwargs" /\ "additional_forward_args" \notin done
    /\ Updated("additional_forward_args",
               _expand_and_update_additional_forward_args(args.n_samples, kwargs))

ExpandAndUpdateTarget ==
    /\ fn = "kwargs" /\ "target" \notin done
    /\ Updated("target", _expand_and_update_target(args.n_samples, kwargs))

Next ==
    \/ ExpandAndUpdateBaselines
    \/ ExpandAndUpdateAdditionalForwardArgs
    \/ ExpandAndUpdateTarget

Spec == Init /\ [][Next]_vars

\* ---------------------------------------------------------- properties
\* element access by multi-index (0-based), independent of the strides
RECURSIVE Horner(_, _, _)
Horner(shape, idx, acc) ==
    IF idx = <<>> THEN acc
    ELSE Horner(Tail(shape), Tail(idx), acc * Head(shape) + Head(idx))

At(t, idx) == t.data[Horner(t.shape, idx, 0) + 1]

IdxSet(shape) ==
    {i \in [1..Len(shape) -> 0..SumSeq(shape)] : \A d \in 1..Len(shape) : i[d] < shape[d]}

Returned == ret.status # "pending"

\* the integers of an int or tuple-of-int target
IndexOf(target) ==
    IF target.tag = "int" THEN <<target.v>> ELSE [j \in 1..Len(target.items) |-> target.items[j].v]

\* C1 (as stated): whenever select_targets returns, the result is the output
\* itself for a None target and has shape [batch] for any other target.
C1_ShapeIsBatch ==
    (fn = "select_targets" /\ ret.status = "ok") =>
        IF args.target.tag = "none" THEN ret.val = args.output
        ELSE ret.val.shape = <<args.output.shape[1]>>

\* C1 (amended): whenever select_targets returns, the result is the output
\* itself for a None target; otherwise it keeps the batch axis and has shape
\* [batch] + (the output dimensions the index leaves unindexed) for an int,
\* tuple, single-element tensor or list-of-tuples target, and shape [batch, 1]
\* for a per-example 1-D tensor or list-of-int target; it is [batch] when an
\* int/tuple index covers every non-batch dimension.
C1_ShapeKeepsBatch ==
    (fn = "select_targets" /\ ret.status = "ok") =>
        LET out == args.output
            tgt == args.target
            rank == Len(out.shape)
            batch == out.shape[1]
            left(k) == SubSeq(out.shape, k + 2, rank)
        IN  IF tgt.tag = "none" THEN ret.val = out
            ELSE /\ ret.val.shape[1] = batch
                 /\ tgt.tag \in {"int", "tuple"} =>
                        /\ ret.val.shape = <<batch>> \o left(Len(IndexOf(tgt)))
                        /\ Len(IndexOf(tgt)) = rank - 1 => ret.val.shape = <<batch>>
                 /\ tgt.tag = "tensor" =>
                        IF Prod(tgt.shape) = 1
                        THEN ret.val.shape = <<batch>> \o left(1)
                        ELSE ret.val.shape = <<batch, 1>>
                 /\ tgt.tag = "list" =>
                        IF tgt.items[1].tag = "int"
                        THEN ret.val.shape = <<batch, 1>>
                        ELSE ret.val.shape = <<batch>> \o left(Len(tgt.items[1].items))

C1_Witness ==
    /\ fn = "select_targets" /\ ret.status = "ok"
    /\ args.output.shape = <<2, 2>>
    /\ args.target = ListV(<<IntV(0), IntV(1)>>)
    /\ ret.val.shape = <<2, 1>>

\* C2: a list target whose length differs from the batch size fails; a list
\* of integers of the right length fails unless the output is 2-D, and on a
\* 2-D output with in-range columns returns one entry per row i, equal to
\* output[i, target[i]].
C2_ListTargetGathersPerRow ==
    (fn = "select_targets" /\ Returned /\ args.target.tag = "list") =>
        LET out == args.output
            items == args.target.items
            batch == out.shape[1]
        IN  /\ Len(items) # batch => ret.status = "AssertionError"
            /\ (Len(items) = batch /\ \A i \in 1..Len(items) : items[i].tag = "int") =>
                /\ Len(out.shape) # 2 => ret.status = "AssertionError"
                /\ (Len(out.shape) = 2
                    /\ \A i \in 1..batch : 0 <= items[i].v /\ items[i].v < out.shape[2]) =>
                        /\ ret.status = "ok"
                        /\ Len(ret.val.data) = batch
                        /\ \A i \in 1..batch :
                              ret.val.data[i] = At(out, <<i - 1, items[i].v>>)

C2_Witness ==
    /\ fn = "select_targets"
    /\ args.output.shape = <<2, 2>>
    /\ args.target = ListV(<<IntV(0), IntV(1)>>)
    /\ ret.status = "ok"
    /\ ret.val.data = <<At(args.output, <<0, 0>>), At(args.output, <<1, 1>>)>>

\* C3: select_column treats an int as a one-element index tuple, fails when
\* the tuple has more than rank - 1 entries, and otherwise is
\* output[:, *target]: shape [batch] + unindexed dimensions, entry
\* (i, rest) equal to output[i, *target, *rest]; on a [batch, C] output an
\* int c gives shape [batch] with i-th entry output[i, c].
C3_SelectColumn ==
    (fn = "select_column" /\ Returned) =>
        LET out == args.output
            idx == IndexOf(args.target)
            k == Len(idx)
            rank == Len(out.shape)
            batch == out.shape[1]
            rest == SubSeq(out.shape, k + 2, rank)
            valid == \A j \in 1..k : -out.shape[j + 1] <= idx[j] /\ idx[j] < out.shape[j + 1]
            norm == [j \in 1..k |-> IF idx[j] < 0 THEN idx[j] + out.shape[j + 1] ELSE idx[j]]
        IN  /\ k > rank - 1 => ret.status = "AssertionError"
            /\ (k <= rank - 1 /\ ~valid) => ret.status = "IndexError"
            /\ (k <= rank - 1 /\ valid) =>
                /\ ret.status = "ok"
                /\ ret.val.shape = <<batch>> \o rest
                /\ \A i \in 0..(batch - 1) : \A r \in IdxSet(rest) :
                      At(ret.val, <<i>> \o r) = At(out, <<i>> \o norm \o r)
                /\ (rank = 2 /\ args.target.tag = "int") =>
                      /\ ret.val.shape = <<batch>>
                      /\ \A i \in 1..batch : ret.val.data[i] = At(out, <<i - 1, norm[1]>>)

C3_Witness ==
    /\ fn = "select_column" /\ ret.status = "ok"
    /\ args.output.shape = <<2, 2>>
    /\ args.target = IntV(1)
    /\ ret.val.shape = <<2>>
    /\ ret.val.data = <<At(args.output, <<0, 1>>), At(args.output, <<1, 1>>)>>

\* C4: for a list target of length L and n_steps >= 0, expand_target returns
\* a list of length L * n_steps whose element k (0-based) is t[k mod L] under
\* repeat and t[k div n_steps] under repeat_interleave.
C4_ExpandListElements ==
    (fn = "expand_target" /\ Returned /\ args.target.tag = "list"
     /\ args.expansion_type \in ExpansionTypes) =>
        LET t == args.target.items
            L == Len(t)
            n == args.n_steps
        IN  /\ ret.status = "ok"
            /\ ret.val.tag = "list"
            /\ Len(ret.val.items) = L * n
            /\ \A k \in 0..(L * n - 1) :
                  ret.val.items[k + 1] =
                      IF args.expansion_type = "repeat" THEN t[(k % L) + 1]
                      ELSE t[(k \div n) + 1]

C4_Witness ==
    /\ fn = "expand_target"
    /\ args.target = ListV(<<IntV(1), IntV(2)>>)
    /\ args.n_steps = 3
    /\ args.expansion_type = "repeat_interleave"
    /\ ret = Ok(ListV(<<IntV(1), IntV(1), IntV(1), IntV(2), IntV(2), IntV(2)>>))

\* the targets C5 calls scalar or single-element, the one-element list apart
IsScalarTarget(t) ==
    t.tag \in {"none", "int", "tuple"} \/ (t.tag = "tensor" /\ Prod(t.shape) = 1)

\* C5 (as stated): expand_target returns a None, int, tuple, single-element
\* tensor or single-element list target unchanged, for every n_steps and
\* expansion type.
C5_SingleElementUnchanged ==
    (fn = "expand_target" /\ Returned
     /\ (IsScalarTarget(args.target)
         \/ (args.target.tag = "list" /\ Len(args.target.items) = 1))) =>
        ret = Ok(args.target)

\* C5 (amended): expand_target returns a None, int, tuple or single-element
\* tensor target unchanged for every n_steps and expansion type; a list is
\* expanded whatever its length, so a single-element list [x] becomes the
\* list of n_steps copies of x under either supported expansion type.
C5_ScalarsUnchangedListsExpanded ==
    (fn = "expand_target" /\ Returned) =>
        /\ IsScalarTarget(args.target) => ret = Ok(args.target)
        /\ (args.target.tag = "list" /\ Len(args.target.items) = 1
            /\ args.expansion_type \in ExpansionTypes) =>
                /\ ret.status = "ok"
                /\ ret.val.tag = "list"
                /\ Len(ret.val.items) = args.n_steps
                /\ \A k \in 1..args.n_steps : ret.val.items[k] = args.target.items[1]

C5_Witness ==
    /\ fn = "expand_target"
    /\ args.target = TensorV("int64", <<1>>, <<1>>)
    /\ args.n_steps = 3
    /\ args.expansion_type = "repeat_interleave"
    /\ ret = Ok(args.target)

\* an argument tuple holding a tensor with at least one dimension
HasExpandableArg(a) ==
    a.tag = "tuple"
    /\ \E i \in 1..Len(a.items) : a.items[i].tag = "tensor" /\ Len(a.items[i].shape) > 0

\* C8 (as stated): called with an expansion type other than repeat and
\* repeat_interleave, expand_target and expand_additional_forward_args fail
\* with a not-implemented error whatever is being expanded.
C8_UnsupportedAlwaysFails ==
    (fn \in {"expand_target", "expand_additional_forward_args"} /\ Returned
     /\ args.expansion_type \notin ExpansionTypes) =>
        ret.status = "NotImplementedError"

\* C8 (amended): called with an expansion type other than repeat and
\* repeat_interleave, expand_target fails with a not-implemented error exactly
\* when the target is a list or a multi-element tensor and otherwise returns
\* the target unchanged; expand_additional_forward_args fails with it exactly
\* when some argument is a tensor with at least one dimension and otherwise
\* returns the arguments unchanged.
C8_UnsupportedFailsWhenExpanding ==
    (Returned /\ fn \in {"expand_target", "expand_additional_forward_args"}
     /\ args.expansion_type \notin ExpansionTypes) =>
        IF fn = "expand_target"
        THEN IF args.target.tag = "list"
                \/ (args.target.tag = "tensor" /\ Prod(args.target.shape) > 1)
             THEN ret.status = "NotImplementedError"
             ELSE ret = Ok(args.target)
        ELSE IF HasExpandableArg(args.additional_forward_args)
             THEN ret.status = "NotImplementedError"
             ELSE ret = Ok(args.additional_forward_args)

C8_Witness ==
    /\ fn = "expand_additional_forward_args"
    /\ args.expansion_type = "other"
    /\ HasExpandableArg(args.additional_forward_args)
    /\ args.n_steps = 2
    /\ ret.status = "NotImplementedError"

\* C7: every (input, baseline) pair validate_input accepts without drawing
\* from a distribution has a scalar baseline, a baseline of exactly the
\* input's shape, or one of the input's shape except for batch size 1.
C7_AcceptedBaselineBroadcastable ==
    (fn = "validate_input" /\ ret.status = "ok"
     /\ ~args.draw_baseline_from_distrib) =>
        \A i \in 1..Len(args.inputs.items) :
            LET input == args.inputs.items[i]
                baseline == args.baselines.items[i]
            IN  \/ baseline.tag \in {"int", "float"}
                \/ baseline.shape = input.shape
                \/ baseline.shape = <<1>> \o Tail(input.shape)

\* C9 (as stated): format_tensor_into_tuples returns None for None, a tuple
\* unchanged, and the one-element tuple (x,) for every other value x.
C9_FormatTotal ==
    (fn = "format_tensor_into_tuples" /\ Returned) =>
        IF args.inputs.tag = "none" THEN ret = Ok(NoneV)
        ELSE IF args.inputs.tag = "tuple" THEN ret = Ok(args.inputs)
        ELSE ret = Ok(TupleV(<<args.inputs>>))

\* C9 (amended): format_tensor_into_tuples returns None for None, a tuple
\* unchanged, and the one-element tuple (x,) for a non-tuple tensor x; for any
\* other non-tuple value it fails with an assertion error.
C9_FormatTensorOrFail ==
    (fn = "format_tensor_into_tuples" /\ Returned) =>
        IF args.inputs.tag = "none" THEN ret = Ok(NoneV)
        ELSE IF args.inputs.tag = "tuple" THEN ret = Ok(args.inputs)
        ELSE IF args.inputs.tag = "tensor" THEN ret = Ok(TupleV(<<args.inputs>>))
        ELSE ret.status = "AssertionError"

C9_Witness ==
    /\ fn = "format_tensor_into_tuples"
    /\ args.inputs.tag = "tensor"
    /\ args.inputs.shape = <<2, 2>>
    /\ ret = Ok(TupleV(<<args.inputs>>))

\* a step of the update function of this key
Step(key) == key \notin done /\ key \in done'

\* the baselines as a tuple: None stands for one 0 per input, a single value
\* for the one-element tuple
BaselineItems(b, inputs) ==
    IF b.tag = "none" THEN [i \in 1..Len(inputs.items) |-> IntV(0)]
    ELSE IF b.tag = "tuple" THEN b.items
    ELSE <<b>>

\* new is old with every row repeated n times in place
IsRowInterleaved(new, old, n) ==
    /\ new.shape = <<old.shape[1] * n>> \o Tail(old.shape)
    /\ \A k \in 0..(old.shape[1] * n - 1) : \A r \in IdxSet(Tail(old.shape)) :
          At(new, <<k>> \o r) = At(old, <<k \div n>> \o r)

\* C6: expand_and_update_baselines without drawing from a distribution
\* leaves a mapping without "baselines" unchanged; otherwise, when it
\* succeeds, "baselines" holds a tuple in which each tensor baseline whose
\* batch size equals its input's and exceeds 1 is its repeat_interleave
\* expansion (row k is original row k div n_samples) and every other
\* baseline is untouched.
C6_BaselinesInterleaved ==
    [][(Step("baselines") /\ ~args.draw_baseline_from_distrib) =>
        IF "baselines" \notin DOMAIN kwargs THEN kwargs' = kwargs
        ELSE ret'.status = "ok" =>
            LET old == BaselineItems(kwargs["baselines"], args.inputs)
                new == kwargs'["baselines"]
            IN  /\ new.tag = "tuple"
                /\ Len(new.items) = Len(old)
                /\ \A i \in 1..Len(old) :
                      IF old[i].tag = "tensor"
                         /\ old[i].shape[1] = args.inputs.items[i].shape[1]
                         /\ old[i].shape[1] > 1
                      THEN IsRowInterleaved(new.items[i], old[i], args.n_samples)
                      ELSE new.items[i] = old[i]]_vars

C6_Witness ==
    /\ fn = "kwargs" /\ last = "baselines" /\ ret.status = "ok"
    /\ ~args.draw_baseline_from_distrib
    /\ args.n_samples = 2
    /\ "baselines" \in DOMAIN kwargs0
    /\ kwargs0["baselines"] = Iota(<<2, 2>>, 100)
    /\ kwargs["baselines"] =
          TupleV(<<TensorV("float32", <<4, 2>>,
                           <<101, 102, 101, 102, 103, 104, 103, 104>>)>>)

\* the three updates applied to the initial mapping in one fixed order
CanonicalResult(rnd) ==
    LET b == _expand_and_update_baselines(args.inputs, args.n_samples, kwargs0,
                                          args.draw_baseline_from_distrib, rnd).kwargs
        a == _expand_and_update_additional_forward_args(args.n_samples, b).kwargs
    IN  _expand_and_update_target(args.n_samples, a).kwargs

\* C10: each update adds no key and changes at most the value of its own
\* key; a failing call leaves the mapping as it was; and once all three have
\* been applied, in whatever order, the mapping is the one a fixed order
\* yields (for the same random draws).
C10_FrameAndOrder ==
    [][/\ \A key \in UpdateKeys : Step(key) =>
            /\ DOMAIN kwargs' = DOMAIN kwargs
            /\ \A k \in DOMAIN kwargs \ {key} : kwargs'[k] = kwargs[k]
            /\ ret'.status # "ok" => kwargs' = kwargs
       /\ done' = UpdateKeys =>
            \E rnd \in RandomDraws(args.inputs, args.n_samples, kwargs0,
                                   args.draw_baseline_from_distrib) :
                kwargs' = CanonicalResult(rnd)]_vars

C10_Witness ==
    /\ fn = "kwargs" /\ done = UpdateKeys /\ ret.status = "ok"
    /\ DOMAIN kwargs0 = UpdateKeys \cup {"stdevs"}
    /\ \A k \in UpdateKeys : kwargs[k] # kwargs0[k]
    /\ kwargs["stdevs"] = kwargs0["stdevs"]

====
